---- MODULE Spec2Model ----
(***************************************************************************)
(* ddb-simple-migrate: the migration engine (src/index.ts), the batched    *)
(* writer and page reader (src/lib/dynamo.ts) and the retry controller     *)
(* (src/lib/util.ts), as one state machine.                                *)
(*                                                                         *)
(* The whole state of one call is the record `run`; `twin` is the same     *)
(* call, fed the same store responses, against an on-demand table.         *)
(***************************************************************************)
EXTENDS Integers, Sequences, FiniteSets, TLC

\* ---------------------------------------------------------------- bounds
\* largest item list handed to a direct batchWrite call
MaxItems == 26
\* largest table scanned by a migrate run
MaxTable == 2
\* a store that applies only part of a submission hands back its last
\* 1..MaxHandBack requests (or the whole submission)
MaxHandBack == 2

\* ------------------------------------------------------------- constants
Limit == 25

DEFAULT_RETRY_OPTIONS == [retries |-> 7, factor |-> 2, minTimeout |-> 1000]

NoError == "none"
UnprocessedError == "Unprocessed items added to queue, retry"
PreflightError == "Table not in On-Demand mode"
DynamoError == "an error"
ScanError == "scan failed"
TypeError == "Cannot read property 'BillingMode' of undefined"
CbError == "cb must be overridden in stream mode"
BatchCbError == "batchCb must be overridden in batch mode"
CallbackError == "callback failed"

\* LastEvaluatedKey === undefined
undefined == 0

Min(a, b) == IF a < b THEN a ELSE b

Range(s) == {s[i] : i \in 1..Len(s)}

\* ----------------------------------------------------------------- items
\* a table row: the key and the attribute the example filter looks at
TableItem(i) ==
    [Id |-> i, OtherAttr |-> IF i % 2 = 1 THEN "hello" ELSE "world", NewAttr |-> FALSE, Key |-> "none"]

\* items.map(Item => ({ PutRequest: { Item } }))
WriteRequest(item) == [PutRequest |-> [Item |-> item]]

MapWriteRequest(items) == [i \in 1..Len(items) |-> WriteRequest(items[i])]

\* ------------------------------------------------------ retry controller
\* what asyncRetry does after attempt `number` of the operation:
\* resolve when it did not throw, call it again while retries are left,
\* reject with the error of the last attempt otherwise
asyncRetryNever(number, threw) == "resolve"

asyncRetryOneMore(number, threw) ==
    IF ~threw THEN "resolve"
    ELSE IF number <= DEFAULT_RETRY_OPTIONS.retries + 1 THEN "retry"
    ELSE "reject"

asyncRetrySwallow(number, threw) ==
    IF ~threw THEN "resolve"
    ELSE IF number <= DEFAULT_RETRY_OPTIONS.retries THEN "retry"
    ELSE "resolve"

asyncRetry(number, threw) ==
    IF ~threw THEN "resolve"
    ELSE IF number <= DEFAULT_RETRY_OPTIONS.retries THEN "retry"
    ELSE "reject"

\* ---------------------------------------------------------- the store
\* the store's answers to one batched write of `requests`:
\*   ok           every request applied
\*   unprocessed  the first Len - n applied, the last n handed back
\*   error        the call throws, nothing applied
\*   lost         every request applied, but the call throws all the same
\*                (the answer never arrives)
WriteResponses(requests) ==
    {[kind |-> "ok", n |-> 0], [kind |-> "error", n |-> 0], [kind |-> "lost", n |-> 0]}
        \cup {[kind |-> "unprocessed", n |-> u] :
                u \in {Len(requests)} \cup 1..Min(MaxHandBack, Len(requests) - 1)}

\* result.UnprocessedItems[tableName]; <<>> stands for no entry
UnprocessedItems(requests, resp) ==
    IF resp.kind = "unprocessed"
    THEN SubSeq(requests, Len(requests) - resp.n + 1, Len(requests))
    ELSE <<>>

Applied(requests, resp) ==
    IF resp.kind = "error" THEN <<>>
    ELSE SubSeq(requests, 1, Len(requests) - resp.n)

\* the call throws instead of returning a result
Throws(resp) == resp.kind \in {"error", "lost"}

\* client.batchWrite(...).promise(): the store's side of one submission
clientBatchWrite(st, requests, resp) ==
    [st EXCEPT
        !.submitted = @ \cup Range(requests),
        !.atomic = @ /\ resp.kind # "lost",
        !.accepted = @ \cup Range(Applied(requests, resp)),
        !.reaccepted = @ \cup (st.accepted \cap Range(Applied(requests, resp)))]

\* what one batchWrite call has seen of the store so far: its submissions,
\* the first attempts among them, the requests handed back as unprocessed
\* (all of them, and those of the latest such answer) and the submissions
\* that threw
observe(seen, tableName, requests, number, resp) ==
    [seen EXCEPT
        !.submissions = @ + 1,
        !.firstAttempts = @ + (IF number = 1 THEN 1 ELSE 0),
        !.unprocessed = @ \cup Range(UnprocessedItems(requests, resp)),
        !.nUnprocessed = @ + (IF resp.kind = "unprocessed" THEN 1 ELSE 0),
        !.lastUnprocessed = IF resp.kind = "unprocessed"
                            THEN UnprocessedItems(requests, resp) ELSE @,
        !.errored = IF Throws(resp)
                    THEN Append(@, [TableName |-> tableName, Requests |-> requests, Error |-> DynamoError])
                    ELSE @]

NothingSeen ==
    [submissions |-> 0, firstAttempts |-> 0, unprocessed |-> {}, nUnprocessed |-> 0,
     lastUnprocessed |-> <<>>, errored |-> <<>>, writeSleeps |-> 0, backoffs |-> 0]

\* the ExclusiveStartKey of the scan the store is answering
ExclusiveStartKey(st) == st.startKeys[Len(st.startKeys)]

\* the store's answer to a scan that starts after `key`: the next m items
\* (at most Limit) and the key of the last one, left out at the end of the
\* table unless the store cannot tell yet (`more`). A store with `full` pages
\* stops a page only at Limit items or at the end of the table.
ScanPage(st, key, m, more) ==
    [Items |-> [i \in 1..m |-> TableItem(key + i)],
     LastEvaluatedKey |-> IF key + m < st.size \/ more THEN key + m ELSE undefined]

ValidScan(st, key, m, more) ==
    /\ m <= Min(Limit, st.size - key)
    /\ (m = 0) = (key = st.size)
    /\ more => (m > 0 /\ key + m = st.size)
    /\ st.full => (m = Min(Limit, st.size - key) /\ (more => m = Limit))

\* client.describeTable({ TableName }).promise(); a table that has never been
\* on-demand ("none") comes without a BillingModeSummary
describeTable(st) ==
    [Table |-> [BillingModeSummary |->
                    [present |-> st.billingMode # "none", BillingMode |-> st.billingMode]]]

InitStore(billingMode, size) ==
    [billingMode |-> billingMode, size |-> size, full |-> FALSE,
     scans |-> 0, startKeys |-> <<>>, lastKeys |-> <<>>, submitted |-> {}, atomic |-> TRUE, accepted |-> {}, reaccepted |-> {}]

\* ------------------------------------------------------------ batchWrite
NoCall == [tableName |-> "", caller |-> "", n |-> 0, count |-> 0, dlq |-> <<>>, queue |-> <<>>,
           batchRequests |-> <<>>, dequeued |-> <<>>, dynamoError |-> NoError,
           retryCount |-> 0, seen |-> NothingSeen]

\* let count = 0; const dlq = []; const queue = items.map(...)
batchWriteEnter(r, tableName, items, caller) ==
    [r EXCEPT !.pc = "bw_while",
              !.bwArgs = Append(@, [caller |-> caller, tableName |-> tableName, items |-> items]),
              !.bw = [NoCall EXCEPT !.tableName = tableName, !.caller = caller,
                                    !.n = Len(items), !.queue = MapWriteRequest(items)]]

\* queue.splice(0, deleteCount): the removed head and what stays on the queue
spliceAll(queue, deleteCount) == [removed |-> queue, queue |-> <<>>]

spliceOffByOne(queue, deleteCount) ==
    [removed |-> SubSeq(queue, 1, Min(deleteCount - 1, Len(queue))),
     queue |-> SubSeq(queue, Min(deleteCount - 1, Len(queue)) + 1, Len(queue))]

splice(queue, deleteCount) ==
    [removed |-> SubSeq(queue, 1, Min(deleteCount, Len(queue))),
     queue |-> SubSeq(queue, Min(deleteCount, Len(queue)) + 1, Len(queue))]

\* while (queue.length > 0) { log; await sleep(delay)
bwWhile(r) == [r EXCEPT !.pc = "bw_sleep", !.bw.seen.writeSleeps = @ + 1]

\* let dynamoError; let batchRequests = queue.splice(0, Limit);
\* asyncRetry calls the operation with attempt number 1
bwDequeue(r) ==
    [r EXCEPT !.pc = "bw_write",
              !.bw.dynamoError = NoError,
              !.bw.batchRequests = splice(r.bw.queue, Limit).removed,
              !.bw.dequeued = splice(r.bw.queue, Limit).removed,
              !.bw.seen.lastUnprocessed = <<>>,
              !.bw.queue = splice(r.bw.queue, Limit).queue,
              !.bw.retryCount = 1]

\* an error thrown inside the page loop, or the rejection of a promise
\* awaited there: migrate has no try/catch, its own promise rejects with it
propagateCaught(r, err) == [r EXCEPT !.pc = "end_batch"]

propagate(r, err) == [r EXCEPT !.pc = "rejected", !.error = err]

\* a callback of the caller (filterCb, cb or batchCb) throws, or the promise
\* it returned rejects
raise(r, callback, err) ==
    propagate([r EXCEPT !.raised = [by |-> callback, error |-> err]], err)

\* batchWrite rejects: the error goes to whoever awaits the call; inside the
\* example batchCb that is batchCb's own promise
bwReject(r, err) ==
    IF r.bw.caller \in {"batchCb_A", "batchCb_B"}
    THEN raise(r, "batchCb", err)
    ELSE [r EXCEPT !.pc = "rejected", !.error = err]

\* whether the retried operation throws to asyncRetry: a store error is
\* caught (dynamoError = e; return), unprocessed requests are thrown
operationThrowsOnError(resp, unprocessedRequests) ==
    Throws(resp) \/ unprocessedRequests # <<>>

operationThrows(resp, unprocessedRequests) ==
    ~Throws(resp) /\ unprocessedRequests # <<>>

\* batchRequests = unprocessedRequests[tableName]
narrowNot(batchRequests, unprocessedRequests) == batchRequests

narrowRequeue(batchRequests, unprocessedRequests) == batchRequests \o unprocessedRequests

narrow(batchRequests, unprocessedRequests) ==
    IF unprocessedRequests # <<>> THEN unprocessedRequests ELSE batchRequests

\* one attempt of the retried operation, with the store's response to it,
\* and what asyncRetry does next
bwAttempt(r, resp) ==
    LET unprocessedRequests == UnprocessedItems(r.bw.batchRequests, resp)
        threw == operationThrows(resp, unprocessedRequests)
        r1 == [r EXCEPT
                  !.store = clientBatchWrite(r.store, r.bw.batchRequests, resp),
                  !.bw.seen = observe(r.bw.seen, r.bw.tableName, r.bw.batchRequests, r.bw.retryCount, resp),
                  !.bw.dynamoError = IF Throws(resp) THEN DynamoError ELSE @,
                  !.bw.batchRequests = narrow(@, unprocessedRequests)]
    IN  CASE asyncRetry(r.bw.retryCount, threw) = "resolve" -> [r1 EXCEPT !.pc = "bw_after"]
          [] asyncRetry(r.bw.retryCount, threw) = "retry" ->
                [r1 EXCEPT !.pc = "bw_backoff", !.bw.seen.backoffs = @ + 1]
          [] OTHER -> bwReject(r1, IF Throws(resp) THEN DynamoError ELSE UnprocessedError)

\* the backoff sleep is over: the operation is called with the next number
bwRetryDequeue(r) == [r EXCEPT !.pc = "bw_while"]

bwRetryWithDelay(r) ==
    [r EXCEPT !.pc = "bw_write", !.bw.retryCount = @ + 1, !.bw.seen.writeSleeps = @ + 1]

bwRetry(r) == [r EXCEPT !.pc = "bw_write", !.bw.retryCount = @ + 1]

\* if (dynamoError) dlq.push({TableName, Requests: batchRequests, Error})
dlqPushAlways(dlq, tableName, batchRequests, dynamoError) ==
    Append(dlq, [TableName |-> tableName, Requests |-> batchRequests, Error |-> dynamoError])

dlqPush(dlq, tableName, batchRequests, dynamoError) ==
    IF dynamoError # NoError
    THEN Append(dlq, [TableName |-> tableName, Requests |-> batchRequests, Error |-> dynamoError])
    ELSE dlq

\* after the retried operation: the dlq push and count++
bwAfterRequeue(r) ==
    [r EXCEPT !.pc = "bw_while",
              !.bw.queue = IF r.bw.dynamoError # NoError THEN @ \o r.bw.batchRequests ELSE @,
              !.bw.count = @ + 1]

bwAfterOriginal(r) ==
    [r EXCEPT !.pc = "bw_while",
              !.bw.dlq = dlqPush(r.bw.dlq, r.bw.tableName, r.bw.dequeued, r.bw.dynamoError),
              !.bw.count = @ + 1]

bwAfter(r) ==
    [r EXCEPT !.pc = "bw_while",
              !.bw.dlq = dlqPush(r.bw.dlq, r.bw.tableName, r.bw.batchRequests, r.bw.dynamoError),
              !.bw.count = @ + 1]

\* return dlq: the caller's await resumes
\*   direct    the call is over
\*   stream    migrate: dlq.push(...batchDlq)
\*   batchCb_A the example batchCb: two items for table B per item,
\*             counts.bItems += ItemsForB.length, batchWrite to table B
\*   batchCb_B the example batchCb is over
ItemsForB(batch) ==
    [i \in 1..(2 * Len(batch)) |->
        [batch[(i + 1) \div 2] EXCEPT !.Key = IF i % 2 = 1 THEN "lookup1" ELSE "lookup2"]]

\* dlq.push(...batchDlq)
pushNone(dlq, batchDlq) == dlq

pushFront(dlq, batchDlq) == batchDlq \o dlq

pushAll(dlq, batchDlq) == dlq \o batchDlq

bwReturnCollect(r) ==
    LET r1 == [r EXCEPT !.bwResult = r.bw.dlq, !.bw = NoCall, !.dlq = pushAll(@, r.bw.dlq)]
    IN  CASE r.bw.caller = "direct" -> [r EXCEPT !.pc = "returned", !.bwResult = r.bw.dlq]
          [] r.bw.caller = "stream" ->
                [r1 EXCEPT !.pc = "end_batch", !.bwResults = Append(@, r.bw.dlq)]
          [] r.bw.caller = "batchCb_A" ->
                batchWriteEnter([r1 EXCEPT !.counts["bItems"] = @ + Len(ItemsForB(r.filtered))],
                                "tableB", ItemsForB(r.filtered), "batchCb_B")
          [] OTHER -> [r1 EXCEPT !.pc = "end_batch"]

bwReturnUncount(r) ==
    LET r1 == [r EXCEPT !.bwResult = r.bw.dlq, !.bw = NoCall]
    IN  CASE r.bw.caller = "direct" -> [r EXCEPT !.pc = "returned", !.bwResult = r.bw.dlq]
          [] r.bw.caller = "stream" ->
                [r1 EXCEPT !.pc = "end_batch", !.dlq = pushAll(@, r.bw.dlq),
                           !.bwResults = Append(@, r.bw.dlq),
                           !.counts["migratedItems"] =
                               @ - Cardinality(UNION {Range(r.bw.dlq[i].Requests) : i \in 1..Len(r.bw.dlq)})]
          [] r.bw.caller = "batchCb_A" ->
                batchWriteEnter([r1 EXCEPT !.counts["bItems"] = @ + Len(ItemsForB(r.filtered))],
                                "tableB", ItemsForB(r.filtered), "batchCb_B")
          [] OTHER -> [r1 EXCEPT !.pc = "end_batch"]

bwReturn(r) ==
    LET r1 == [r EXCEPT !.bwResult = r.bw.dlq, !.bw = NoCall]
    IN  CASE r.bw.caller = "direct" -> [r EXCEPT !.pc = "returned", !.bwResult = r.bw.dlq]
          [] r.bw.caller = "stream" ->
                [r1 EXCEPT !.pc = "end_batch", !.dlq = pushAll(@, r.bw.dlq),
                           !.bwResults = Append(@, r.bw.dlq)]
          [] r.bw.caller = "batchCb_A" ->
                batchWriteEnter([r1 EXCEPT !.counts["bItems"] = @ + Len(ItemsForB(r.filtered))],
                                "tableB", ItemsForB(r.filtered), "batchCb_B")
          [] OTHER -> [r1 EXCEPT !.pc = "end_batch"]

\* --------------------------------------------------------------- migrate
\* counts = {batch: 0, totalItems: 0, migratedItems: 0}; customCounts.forEach
InitCounts(customCounts) ==
    [k \in {"batch", "totalItems", "migratedItems"} \cup customCounts |-> 0]

\* the filterCb of the run: the default () => true, the example's
\* Item => Item.OtherAttr === "hello", one that selects nothing, and one that
\* throws on the items whose OtherAttr is not "hello"
filterCb(kind, item) ==
    CASE kind = "default" -> TRUE
      [] kind = "nothing" -> FALSE
      [] kind = "throws" -> TRUE
      [] OTHER -> item.OtherAttr = "hello"

filterCbThrows(kind, item) == kind = "throws" /\ item.OtherAttr # "hello"

\* the example cb: Item => ({...Item, NewAttr: ...})
cb(item) == [item EXCEPT !.NewAttr = TRUE]

\* the cb of the run: the example, the default (throws on every call), or an
\* async one whose promise rejects for the items whose OtherAttr is not "hello"
cbThrows(kind, item) == kind = "default"

cbRejects(kind, item) == kind = "throws" /\ item.OtherAttr # "hello"

\* the batchCb of the run: the example, or the default (throws on every call)
batchCbThrows(kind) == kind = "default"

\* the index of the first element of items that makes a callback throw, and
\* Len(items) + 1 when none does
RECURSIVE firstThrow(_, _, _)
firstThrow(items, throwing, i) ==
    IF i > Len(items) \/ throwing[i] THEN i ELSE firstThrow(items, throwing, i + 1)

\* the pre-flight guard: what migrate does with the table's billing mode
preflightOff(isOnDemand, force) == "continue"

preflightNoForce(isOnDemand, force) ==
    IF ~isOnDemand THEN "throw" ELSE "continue"

preflight(isOnDemand, force) ==
    IF ~isOnDemand /\ ~force THEN "throw" ELSE "continue"

\* counts, describeTable, the guard, the settings, await sleep(5000)
migrateStart(r) ==
    LET tableDetails == describeTable(r.store)
        isOnDemand == tableDetails.Table.BillingModeSummary.BillingMode = "PAY_PER_REQUEST"
        r1 == [r EXCEPT !.counts = InitCounts(r.p.customCounts)]
    IN  IF ~tableDetails.Table.BillingModeSummary.present
        THEN [r1 EXCEPT !.pc = "rejected", !.error = TypeError]
        ELSE IF preflight(isOnDemand, r.p.force) = "throw"
        THEN [r1 EXCEPT !.pc = "rejected", !.error = PreflightError]
        ELSE [r1 EXCEPT !.pc = "wait"]

\* what a callback called now sees of the built-in counters, with the
\* (0-based) number of the page being processed
snapshot(r, callback) ==
    [by |-> callback, page |-> r.store.scans - 1, batch |-> r.counts["batch"],
     totalItems |-> r.counts["totalItems"], migratedItems |-> r.counts["migratedItems"]]

\* let LastEvaluatedKey; const dlq = []; do { ... await sleep(scanDelay)
startLoopWhile(r) ==
    [r EXCEPT !.pc = "drained", !.LastEvaluatedKey = undefined, !.dlq = <<>>]

startLoop(r) ==
    [r EXCEPT !.pc = "scan_sleep", !.LastEvaluatedKey = undefined, !.dlq = <<>>,
              !.scanSleeps = @ + 1]

\* batchScan(client, TableName, LastEvaluatedKey, quiet) is issued
scanIssueFromStart(r) ==
    [r EXCEPT !.pc = "scan", !.store.scans = @ + 1,
              !.store.startKeys = Append(@, undefined)]

scanIssue(r) ==
    [r EXCEPT !.pc = "scan", !.store.scans = @ + 1,
              !.store.startKeys = Append(@, r.LastEvaluatedKey)]

\* the scan's page arrives: LastEvaluatedKey, counts.totalItems
scanOkAssign(r, page) ==
    [r EXCEPT !.pc = "filter",
              !.LastEvaluatedKey = page.LastEvaluatedKey,
              !.store.lastKeys = Append(@, page.LastEvaluatedKey),
              !.batch = page.Items,
              !.scanned = @ \o page.Items,
              !.counts["totalItems"] = Len(page.Items)]

scanOk(r, page) ==
    [r EXCEPT !.pc = "filter",
              !.LastEvaluatedKey = page.LastEvaluatedKey,
              !.store.lastKeys = Append(@, page.LastEvaluatedKey),
              !.batch = page.Items,
              !.scanned = @ \o page.Items,
              !.counts["totalItems"] = @ + Len(page.Items)]

\* the scan throws: nothing catches it
scanFailRetry(r) == [r EXCEPT !.pc = "scan_sleep", !.error = ScanError]

scanFailSaving(r) ==
    [r EXCEPT !.pc = "rejected", !.error = ScanError,
              !.dlqFiles = @ + (IF r.p.saveDlq /\ Len(r.dlq) > 0 THEN 1 ELSE 0)]

scanFail(r) == [r EXCEPT !.pc = "rejected", !.error = ScanError]

\* batch.Items.filter(item => filterCb(item, counts, batchLog))
filter(items, kind) == SelectSeq(items, LAMBDA item: filterCb(kind, item))

\* filterCb is called on the items of the page in order; the first call that
\* throws ends the run
doFilterCountPage(r) ==
    LET filtered == filter(r.batch, r.p.filterCb)
        first == firstThrow(r.batch, [i \in 1..Len(r.batch) |-> filterCbThrows(r.p.filterCb, r.batch[i])], 1)
        seen == IF r.batch # <<>> THEN {snapshot(r, "filterCb")} ELSE {}
    IN  IF first <= Len(r.batch)
        THEN raise([r EXCEPT !.callbacks = @ + first, !.observed = @ \cup seen],
                   "filterCb", CallbackError)
        ELSE [r EXCEPT !.pc = "dispatch",
                       !.filtered = filtered,
                       !.callbacks = @ + Len(r.batch),
                       !.observed = @ \cup seen,
                       !.counts["migratedItems"] = @ + Len(r.batch)]

doFilter(r) ==
    LET filtered == filter(r.batch, r.p.filterCb)
        first == firstThrow(r.batch, [i \in 1..Len(r.batch) |-> filterCbThrows(r.p.filterCb, r.batch[i])], 1)
        seen == IF r.batch # <<>> THEN {snapshot(r, "filterCb")} ELSE {}
    IN  IF first <= Len(r.batch)
        THEN raise([r EXCEPT !.callbacks = @ + first, !.observed = @ \cup seen],
                   "filterCb", CallbackError)
        ELSE [r EXCEPT !.pc = "dispatch",
                       !.filtered = filtered,
                       !.callbacks = @ + Len(r.batch),
                       !.observed = @ \cup seen,
                       !.counts["migratedItems"] = @ + Len(filtered)]

\* await batchCb(client, filtered, counts, batchLog, batchWrite)
callBatchCb(r) ==
    LET r1 == [r EXCEPT !.callbacks = @ + 1, !.batchCbArgs = Append(@, r.filtered),
                        !.observed = @ \cup {snapshot(r, "batchCb")}]
    IN  IF batchCbThrows(r.p.batchCb)
        THEN raise(r1, "batchCb", BatchCbError)
        ELSE batchWriteEnter(r1, r.p.TableName, r.filtered, "batchCb_A")

\* filtered.map(cb): cb is called on the selected items in order, a call
\* that throws ends the map; the promises returned are awaited together
mapCb(r) ==
    LET first == firstThrow(r.filtered, [i \in 1..Len(r.filtered) |-> cbThrows(r.p.cb, r.filtered[i])], 1)
    IN  IF first <= Len(r.filtered)
        THEN raise([r EXCEPT !.callbacks = @ + first,
                             !.observed = @ \cup {snapshot(r, "cb")},
                             !.cbArgs = @ \o SubSeq(r.filtered, 1, first)],
                   "cb", CbError)
        ELSE [r EXCEPT !.pc = "transform",
                       !.callbacks = @ + Len(r.filtered),
                       !.observed = @ \cup (IF r.filtered # <<>> THEN {snapshot(r, "cb")} ELSE {}),
                       !.cbArgs = @ \o r.filtered,
                       !.Items = r.filtered,
                       !.pending = 1..Len(r.filtered)]

\* if (mode === Mode.Batch) await batchCb(...) else Promise.all(filtered.map(cb))
dispatchStreamAlways(r) == mapCb(r)

dispatchSkipEmpty(r) ==
    IF r.p.mode = "batch"
    THEN IF r.filtered = <<>> THEN [r EXCEPT !.pc = "end_batch"] ELSE callBatchCb(r)
    ELSE mapCb(r)

dispatch(r) ==
    IF r.p.mode = "batch" THEN callBatchCb(r) ELSE mapCb(r)

\* the promise of cb(filtered[i]) resolves
cbResolveInTurn(r, i) ==
    [r EXCEPT !.pending = @ \ {i},
              !.Items[Len(r.filtered) - Cardinality(r.pending) + 1] = cb(r.filtered[i])]

cbResolve(r, i) ==
    [r EXCEPT !.pending = @ \ {i}, !.Items[i] = cb(r.filtered[i])]

\* the promise of cb(filtered[i]) rejects, and Promise.all with it
cbReject(r, i) == raise(r, "cb", CallbackError)

\* every transform has resolved: batchWrite(client, TableName, Items, ...)
streamWriteNoAwait(r) ==
    [batchWriteEnter(r, r.p.TableName, r.Items, "stream") EXCEPT !.pc = "end_batch"]

streamWrite(r) == batchWriteEnter(r, r.p.TableName, r.Items, "stream")

\* counts.batch++; } while (LastEvaluatedKey !== undefined)
endBatchOnce(r) ==
    [r EXCEPT !.counts["batch"] = @ + 1, !.pc = "drained"]

endBatchTwice(r) ==
    [r EXCEPT !.counts["batch"] = @ + 2,
              !.pc = IF r.LastEvaluatedKey # undefined THEN "scan_sleep" ELSE "drained",
              !.scanSleeps = @ + (IF r.LastEvaluatedKey # undefined THEN 1 ELSE 0)]

endBatch(r) ==
    [r EXCEPT !.counts["batch"] = @ + 1,
              !.pc = IF r.LastEvaluatedKey # undefined THEN "scan_sleep" ELSE "drained",
              !.scanSleeps = @ + (IF r.LastEvaluatedKey # undefined THEN 1 ELSE 0)]

\* if (saveDlq && dlq.length > 0) writeFile(...); return {counts, dlq}
finishAlwaysSave(r) ==
    [r EXCEPT !.pc = "returned",
              !.dlqFiles = @ + (IF Len(r.dlq) > 0 THEN 1 ELSE 0),
              !.result = [counts |-> r.counts, dlq |-> r.dlq]]

finishBuiltinCounts(r) ==
    [r EXCEPT !.pc = "returned",
              !.dlqFiles = @ + (IF r.p.saveDlq /\ Len(r.dlq) > 0 THEN 1 ELSE 0),
              !.result = [counts |-> [k \in {"batch", "totalItems", "migratedItems"} |-> r.counts[k]],
                          dlq |-> r.dlq]]

finish(r) ==
    [r EXCEPT !.pc = "returned",
              !.dlqFiles = @ + (IF r.p.saveDlq /\ Len(r.dlq) > 0 THEN 1 ELSE 0),
              !.result = [counts |-> r.counts, dlq |-> r.dlq]]

\* ------------------------------------------------------------------ state
VARIABLES run, twin

vars == <<run, twin>>

NoParams ==
    [TableName |-> "table", mode |-> "stream", force |-> FALSE, filterCb |-> "default",
     cb |-> "example", batchCb |-> "example", customCounts |-> {}, saveDlq |-> TRUE]

Call(entry, p, items, billingMode, size) ==
    [entry |-> entry, pc |-> "call", error |-> NoError, p |-> p, items |-> items,
     counts |-> InitCounts({}), LastEvaluatedKey |-> undefined, dlq |-> <<>>,
     batch |-> <<>>, filtered |-> <<>>, Items |-> <<>>, pending |-> {},
     bw |-> NoCall, bwResult |-> <<>>, result |-> [counts |-> InitCounts({}), dlq |-> <<>>],
     callbacks |-> 0, cbArgs |-> <<>>, batchCbArgs |-> <<>>, bwArgs |-> <<>>,
     observed |-> {}, scanSleeps |-> 0, bwResults |-> <<>>,
     raised |-> [by |-> "", error |-> NoError], scanned |-> <<>>, dlqFiles |-> 0,
     store |-> InitStore(billingMode, size)]

\* a direct call batchWrite(client, "table", items, 0)
DirectCall(n) ==
    Call("batchWrite", NoParams, [i \in 1..n |-> TableItem(i)], "PAY_PER_REQUEST", 0)

\* migrate({TableName: "tableA", mode, filterCb, force, ...}) on a table of
\* `size` items in the given billing mode
MigrateCall(mode, filterKind, force, billingMode, size) ==
    Call("migrate",
         [NoParams EXCEPT !.TableName = "tableA", !.mode = mode, !.force = force,
                          !.filterCb = filterKind,
                          !.customCounts = IF mode = "batch" THEN {"bItems"} ELSE {}],
         <<>>, billingMode, size)

\* the same migrate call on an on-demand table with the given callbacks
WithCallbacks(mode, filterKind, cbKind, batchCbKind, size) ==
    [MigrateCall(mode, filterKind, FALSE, "PAY_PER_REQUEST", size)
        EXCEPT !.p.cb = cbKind, !.p.batchCb = batchCbKind]

\* the same call with saveDlq: false
WithoutDlqFile(call) == [call EXCEPT !.p.saveDlq = FALSE]

\* the call against a store that fills its pages
FullPages(call) == [call EXCEPT !.store.full = TRUE]

Init ==
    /\ run \in {DirectCall(n) : n \in 0..MaxItems}
                \cup {MigrateCall("stream", fk, force, bm, size) :
                        fk \in {"default", "hello"}, force \in BOOLEAN,
                        bm \in {"PAY_PER_REQUEST", "PROVISIONED"}, size \in 0..MaxTable}
                \cup {MigrateCall("batch", "default", force, "PROVISIONED", size) :
                        force \in BOOLEAN, size \in 0..MaxTable}
                \cup {MigrateCall("stream", "default", force, "none", MaxTable) :
                        force \in BOOLEAN}
                \cup {WithCallbacks("stream", fk, "example", "default", size) :
                        fk \in {"nothing", "throws"}, size \in 0..MaxTable}
                \cup {WithCallbacks("stream", fk, "default", "default", size) :
                        fk \in {"default", "hello", "nothing"}, size \in 0..MaxTable}
                \cup {WithCallbacks("stream", "default", "throws", "default", size) :
                        size \in 0..MaxTable}
                \cup {WithCallbacks("batch", "default", "default", "default", size) :
                        size \in 0..MaxTable}
                \cup {WithoutDlqFile(MigrateCall("stream", "default", FALSE, "PAY_PER_REQUEST", size)) :
                        size \in 0..MaxTable}
                \cup {FullPages(WithCallbacks("stream", "nothing", "example", "default", Limit + 5))}
    /\ twin = [run EXCEPT !.store.billingMode = "PAY_PER_REQUEST"]

\* ----------------------------------------------------------------- guards
at(r, pc) == r.pc = pc

canCall(r, entry) == r.pc = "call" /\ r.entry = entry

queueLeft(r, nonEmpty) == r.pc = "bw_while" /\ (Len(r.bw.queue) > 0) = nonEmpty

canWrite(r, resp) == r.pc = "bw_write" /\ resp \in WriteResponses(r.bw.batchRequests)

canScan(r, m, more) == r.pc = "scan" /\ ValidScan(r.store, ExclusiveStartKey(r.store), m, more)

isPending(r, i) ==
    r.pc = "transform" /\ i \in r.pending /\ ~cbRejects(r.p.cb, r.filtered[i])

isRejecting(r, i) ==
    r.pc = "transform" /\ i \in r.pending /\ cbRejects(r.p.cb, r.filtered[i])

allResolvedNoWait(r) == r.pc = "transform"

allResolved(r) == r.pc = "transform" /\ r.pending = {}

\* ---------------------------------------------------------------- actions
\* every action is one step of the call and, where the twin is at the same
\* place, the same step of the twin
CallBatchWrite ==
    /\ canCall(run, "batchWrite")
    /\ run' = batchWriteEnter(run, run.p.TableName, run.items, "direct")
    /\ twin' = IF canCall(twin, "batchWrite")
               THEN batchWriteEnter(twin, twin.p.TableName, twin.items, "direct") ELSE twin

BwWhile ==
    /\ queueLeft(run, TRUE)
    /\ run' = bwWhile(run)
    /\ twin' = IF queueLeft(twin, TRUE) THEN bwWhile(twin) ELSE twin

BwDequeue ==
    /\ at(run, "bw_sleep")
    /\ run' = bwDequeue(run)
    /\ twin' = IF at(twin, "bw_sleep") THEN bwDequeue(twin) ELSE twin

BwWrite ==
    \E kind \in {"ok", "unprocessed", "error", "lost"}, u \in 0..Limit :
        /\ canWrite(run, [kind |-> kind, n |-> u])
        /\ run' = bwAttempt(run, [kind |-> kind, n |-> u])
        /\ twin' = IF canWrite(twin, [kind |-> kind, n |-> u])
                   THEN bwAttempt(twin, [kind |-> kind, n |-> u]) ELSE twin

BwRetry ==
    /\ at(run, "bw_backoff")
    /\ run' = bwRetry(run)
    /\ twin' = IF at(twin, "bw_backoff") THEN bwRetry(twin) ELSE twin

BwAfter ==
    /\ at(run, "bw_after")
    /\ run' = bwAfter(run)
    /\ twin' = IF at(twin, "bw_after") THEN bwAfter(twin) ELSE twin

BwReturn ==
    /\ queueLeft(run, FALSE)
    /\ run' = bwReturn(run)
    /\ twin' = IF queueLeft(twin, FALSE) THEN bwReturn(twin) ELSE twin

MigrateStart ==
    /\ canCall(run, "migrate")
    /\ run' = migrateStart(run)
    /\ twin' = IF canCall(twin, "migrate") THEN migrateStart(twin) ELSE twin

StartLoop ==
    /\ at(run, "wait")
    /\ run' = startLoop(run)
    /\ twin' = IF at(twin, "wait") THEN startLoop(twin) ELSE twin

ScanIssue ==
    /\ at(run, "scan_sleep")
    /\ run' = scanIssue(run)
    /\ twin' = IF at(twin, "scan_sleep") THEN scanIssue(twin) ELSE twin

ScanOk ==
    \E m \in 0..Limit, more \in BOOLEAN :
        /\ canScan(run, m, more)
        /\ run' = scanOk(run, ScanPage(run.store, ExclusiveStartKey(run.store), m, more))
        /\ twin' = IF canScan(twin, m, more)
                   THEN scanOk(twin, ScanPage(twin.store, ExclusiveStartKey(twin.store), m, more))
                   ELSE twin

ScanFail ==
    /\ at(run, "scan")
    /\ run' = scanFail(run)
    /\ twin' = IF at(twin, "scan") THEN scanFail(twin) ELSE twin

Filter ==
    /\ at(run, "filter")
    /\ run' = doFilter(run)
    /\ twin' = IF at(twin, "filter") THEN doFilter(twin) ELSE twin

Dispatch ==
    /\ at(run, "dispatch")
    /\ run' = dispatch(run)
    /\ twin' = IF at(twin, "dispatch") THEN dispatch(twin) ELSE twin

CbResolve ==
    \E i \in 1..Limit :
        /\ isPending(run, i)
        /\ run' = cbResolve(run, i)
        /\ twin' = IF isPending(twin, i) THEN cbResolve(twin, i) ELSE twin

CbReject ==
    \E i \in 1..Limit :
        /\ isRejecting(run, i)
        /\ run' = cbReject(run, i)
        /\ twin' = IF isRejecting(twin, i) THEN cbReject(twin, i) ELSE twin

StreamWrite ==
    /\ allResolved(run)
    /\ run' = streamWrite(run)
    /\ twin' = IF allResolved(twin) THEN streamWrite(twin) ELSE twin

EndBatch ==
    /\ at(run, "end_batch")
    /\ run' = endBatch(run)
    /\ twin' = IF at(twin, "end_batch") THEN endBatch(twin) ELSE twin

Finish ==
    /\ at(run, "drained")
    /\ run' = finish(run)
    /\ twin' = IF at(twin, "drained") THEN finish(twin) ELSE twin

Next ==
    \/ CallBatchWrite
    \/ BwWhile
    \/ BwDequeue
    \/ BwWrite
    \/ BwRetry
    \/ BwAfter
    \/ BwReturn
    \/ MigrateStart
    \/ StartLoop
    \/ ScanIssue
    \/ ScanOk
    \/ ScanFail
    \/ Filter
    \/ Dispatch
    \/ CbResolve
    \/ CbReject
    \/ StreamWrite
    \/ EndBatch
    \/ Finish

Spec == Init /\ [][Next]_vars

TypeOK ==
    run.pc \in {"call", "bw_while", "bw_sleep", "bw_write", "bw_backoff", "bw_after",
                "wait", "scan_sleep", "scan", "filter", "dispatch", "transform",
                "end_batch", "drained", "returned", "rejected"}

\* ------------------------------------------------------------ properties
Ceil(n, d) == (n + d - 1) \div d

\* the requests held by the entries of a dlq
DlqRequests(dlq) == UNION {Range(dlq[i].Requests) : i \in 1..Len(dlq)}

Completed(r, entry) == r.entry = entry /\ r.pc = "returned"

Finished(r, entry) == r.entry = entry /\ r.pc \in {"returned", "rejected"}

\* describeTable reports a billing mode, and it is not PAY_PER_REQUEST
Provisioned(r) == r.entry = "migrate" /\ r.store.billingMode = "PROVISIONED"

\* C1: at the end of a completed Stream Mode run every scanned item was
\* rejected by filterCb, or its transformed item was applied by the store in
\* some submission, or it is among the Requests of an entry of the returned dlq.
C1_NoItemDropped ==
    (Completed(run, "migrate") /\ run.p.mode = "stream") =>
        \A i \in 1..Len(run.scanned) :
            \/ ~filterCb(run.p.filterCb, run.scanned[i])
            \/ WriteRequest(cb(run.scanned[i])) \in run.store.accepted
            \/ WriteRequest(cb(run.scanned[i])) \in DlqRequests(run.result.dlq)

\* a completed Stream Mode run over two items: one filtered out, the other in
\* the returned dlq
C1_Witness ==
    /\ Completed(run, "migrate") /\ run.p.mode = "stream"
    /\ Len(run.scanned) = 2
    /\ \E i \in 1..2 : ~filterCb(run.p.filterCb, run.scanned[i])
    /\ Len(run.result.dlq) = 1

\* C2: on a table that is not PAY_PER_REQUEST and without force, migrate
\* rejects (with the pre-flight error when describeTable reports a billing
\* mode) and has issued no scan, no write submission and no callback;
\* counts.batch is still 0.
C2_PreflightAborts ==
    (run.entry = "migrate" /\ run.store.billingMode # "PAY_PER_REQUEST"
            /\ ~run.p.force /\ run.pc # "call") =>
        /\ run.pc = "rejected"
        /\ Provisioned(run) => run.error = PreflightError
        /\ run.store.scans = 0
        /\ run.store.submitted = {}
        /\ run.callbacks = 0
        /\ run.counts["batch"] = 0

C2_Witness ==
    Provisioned(run) /\ ~run.p.force /\ run.pc = "rejected" /\ run.error = PreflightError

\* C3: with force, a run on a table that is not PAY_PER_REQUEST is not stopped
\* by the pre-flight guard, and is at every step in the state of the same run,
\* given the same store responses, on an on-demand table: same scans, writes,
\* counts and dlq.
C3_ForcedRunsLikeOnDemand ==
    (Provisioned(run) /\ run.p.force) =>
        /\ run.error # PreflightError
        /\ [run EXCEPT !.store.billingMode = "PAY_PER_REQUEST"] = twin

\* a forced run on a provisioned table that completed after a scan of two
\* items and a write
C3_Witness ==
    /\ Provisioned(run) /\ run.p.force /\ run.pc = "returned"
    /\ Len(run.scanned) = 2
    /\ run.store.submitted # {}
    /\ twin.pc = "returned"

C5_DlqIsTheErroredBatches ==
    /\ (run.entry = "batchWrite" /\ run.bw.seen.nUnprocessed = 0) => run.pc # "rejected"
    /\ run.pc = "rejected" => run.error # DynamoError
    /\ run.pc = "bw_while" => run.bw.dlq = run.bw.seen.errored
    /\ Completed(run, "batchWrite") => run.bwResult = run.bw.seen.errored
    /\ (Completed(run, "batchWrite") /\ run.bw.seen.submissions = 1
            /\ run.bw.seen.errored # <<>>) =>
         run.bwResult = <<[TableName |-> run.p.TableName,
                           Requests |-> MapWriteRequest(run.items),
                           Error |-> DynamoError]>>

\* a returned call of two batches: one ended with a store error, the other
\* was applied
C5_Witness ==
    /\ Completed(run, "batchWrite") /\ run.bw.count = 2
    /\ Len(run.bwResult) = 1
    /\ run.store.accepted # {}

\* C6: when a batchWrite call is over, every request the store handed back as
\* unprocessed has been applied in a later submission or is in a DLQ entry
\* the call returned.
C6_UnprocessedNeverDropped ==
    Finished(run, "batchWrite") =>
        run.bw.seen.unprocessed \subseteq (run.store.accepted \cup DlqRequests(run.bwResult))

\* C7: neither batchWrite nor migrate rejects with the unprocessed-items error.
C7_UnprocessedErrorNotSurfaced ==
    run.pc = "rejected" => run.error # UnprocessedError

\* C8: in a batchWrite call over n items each of the ceil(n/25) batches gets a
\* first submission, whatever happened to the batches before it.
C8_EveryBatchSubmitted ==
    Finished(run, "batchWrite") =>
        run.bw.seen.firstAttempts = Ceil(Len(run.items), 25)

\* C9: as long as the store applies nothing of a submission that throws, no
\* request is applied in more than one submission, none is both applied and in
\* a DLQ entry, and none is in more than one DLQ entry of the call.
C9_AcceptedOrDeadLetteredOnce ==
    run.store.atomic =>
        /\ run.store.reaccepted = {}
        /\ DlqRequests(run.bw.dlq) \cap run.store.accepted = {}
        /\ \A i \in 1..Len(run.bw.dlq) :
            /\ Cardinality(Range(run.bw.dlq[i].Requests)) = Len(run.bw.dlq[i].Requests)
            /\ \A j \in 1..Len(run.bw.dlq) :
                i # j => Range(run.bw.dlq[i].Requests) \cap Range(run.bw.dlq[j].Requests) = {}

\* a returned call in which requests were handed back, some were applied and a
\* narrowed batch was dead-lettered
C9_Witness ==
    /\ Completed(run, "batchWrite") /\ run.store.atomic
    /\ run.bw.seen.nUnprocessed > 0
    /\ run.store.accepted # {}
    /\ Len(run.bw.dlq) > 0

\* C10: against a store that applies every submission completely, batchWrite
\* over n items makes exactly ceil(n/25) submissions and returns an empty dlq.
C10_SubmissionsAbsentRetries ==
    (Completed(run, "batchWrite") /\ run.bw.seen.nUnprocessed = 0
            /\ run.bw.seen.errored = <<>>) =>
        /\ run.bw.seen.submissions = Ceil(Len(run.items), 25)
        /\ run.bwResult = <<>>

\* 26 items written in two submissions
C10_Witness ==
    /\ Completed(run, "batchWrite") /\ Len(run.items) = 26
    /\ run.bw.seen.nUnprocessed = 0 /\ run.bw.seen.errored = <<>>
    /\ run.bw.seen.submissions = 2

\* the 26-item scenario: the call has returned, the store threw nothing and
\* handed requests back once, and what it handed back is the whole first
\* submission (the first 25 requests)
FirstSubmissionHandedBack(r) ==
    /\ Completed(r, "batchWrite") /\ Len(r.items) = 26
    /\ r.bw.seen.errored = <<>>
    /\ r.bw.seen.nUnprocessed = 1
    /\ r.bw.seen.unprocessed = Range(SubSeq(MapWriteRequest(r.items), 1, 25))

\* C11 as claimed: batchWrite over 26 items, whose first submission is handed
\* back whole as unprocessed and whose later submissions are all applied,
\* returns an empty dlq after exactly two write submissions.
C11_TwoSubmissions ==
    FirstSubmissionHandedBack(run) =>
        /\ run.bwResult = <<>>
        /\ run.bw.seen.submissions = 2

\* C11 as amended: in that scenario batchWrite returns an empty dlq after
\* exactly three write submissions: the first 25 requests, the same 25 again,
\* and the 26th request.
C11_ThreeSubmissions ==
    FirstSubmissionHandedBack(run) =>
        /\ run.bwResult = <<>>
        /\ run.bw.seen.submissions = 3
        /\ run.bw.seen.firstAttempts = 2
        /\ run.store.accepted = Range(MapWriteRequest(run.items))

C11_Witness ==
    FirstSubmissionHandedBack(run) /\ run.bw.count = 2

\* the items of a sequence for which the filterCb of the run returns true
Select(items, kind) == SelectSeq(items, LAMBDA item: filterCb(kind, item))

\* C12: at completion of a run counts.totalItems is the number of items the
\* scans returned, counts.migratedItems the number of them filterCb selected,
\* their difference the number filtered out; with the default filter the two
\* counters are equal.
C12_CountersMatchScans ==
    Completed(run, "migrate") =>
        /\ run.result.counts["totalItems"] = Len(run.scanned)
        /\ run.result.counts["migratedItems"] = Len(Select(run.scanned, run.p.filterCb))
        /\ run.result.counts["totalItems"] - run.result.counts["migratedItems"]
             = Cardinality({i \in 1..Len(run.scanned) : ~filterCb(run.p.filterCb, run.scanned[i])})
        /\ run.p.filterCb = "default" =>
             run.result.counts["migratedItems"] = run.result.counts["totalItems"]

\* a completed run over two scanned items of which the filter selected one
C12_Witness ==
    /\ Completed(run, "migrate") /\ run.p.filterCb = "hello"
    /\ run.result.counts["totalItems"] = 2
    /\ run.result.counts["migratedItems"] = 1

\* C13: the first scan of a run has no start key, every later scan has the
\* LastEvaluatedKey the scan before it returned, and no start key is used
\* twice.
C13_CursorThreaded ==
    LET startKeys == run.store.startKeys
        lastKeys == run.store.lastKeys
    IN  /\ Len(lastKeys) <= Len(startKeys) /\ Len(startKeys) <= Len(lastKeys) + 1
        /\ \A k \in 1..Len(startKeys) :
            /\ k = 1 => startKeys[k] = undefined
            /\ k > 1 => startKeys[k] = lastKeys[k - 1]
            /\ \A j \in 1..Len(startKeys) : j # k => startKeys[j] # startKeys[k]

\* a completed run of three scans
C13_Witness ==
    /\ Completed(run, "migrate")
    /\ Len(run.store.startKeys) = 3
    /\ run.store.startKeys[3] = 2

\* C14: no scan is issued after a scan that returned no LastEvaluatedKey; the
\* last scan of a completed run is the first one that returned none, and
\* counts.batch is the number of scans. A table of 30 items read in pages of
\* 25 takes two scans, the second returning the last 5 items and no key.
C14_ScansUntilNoCursor ==
    LET lastKeys == run.store.lastKeys
    IN  /\ \A k \in 1..Len(lastKeys) :
            lastKeys[k] = undefined => (k = Len(lastKeys) /\ Len(run.store.startKeys) = k)
        /\ Completed(run, "migrate") =>
            /\ Len(lastKeys) > 0 /\ lastKeys[Len(lastKeys)] = undefined
            /\ run.store.scans = Len(lastKeys)
            /\ run.result.counts["batch"] = run.store.scans
        /\ (Completed(run, "migrate") /\ run.store.full /\ run.store.size = 30) =>
            /\ run.store.scans = 2
            /\ lastKeys = <<25, undefined>>
            /\ Len(run.scanned) = 30

\* the table of 30 items has been read
C14_Witness ==
    /\ Completed(run, "migrate") /\ run.store.full /\ run.store.size = 30
    /\ run.result.counts["batch"] = 2

\* C15: a Stream Mode run that got past the pre-flight guard ends in
\* rejection only if a scan or a callback raised: no answer of the store to a
\* write stops it from completing.
C15_StreamRunNotStoppedByWrites ==
    (run.entry = "migrate" /\ run.p.mode = "stream" /\ run.pc = "rejected") =>
        \/ run.error \in {PreflightError, TypeError, ScanError}
        \/ run.raised.error # NoError

\* C16: a scan that raises makes migrate reject with the scan's error, and
\* that is the last thing the run does: no scan, no write and no callback
\* follows.
C16_ScanErrorAborts ==
    [][/\ (run.pc = "scan" /\ run'.pc # "filter") =>
            run' = [run EXCEPT !.pc = "rejected", !.error = ScanError]
       /\ run.error = ScanError => run' = run]_vars

\* the scan of the second page raised, after the first page was written
C16_Witness ==
    /\ run.pc = "rejected" /\ run.error = ScanError
    /\ Len(run.store.startKeys) = 2
    /\ run.store.submitted # {}

C18_ModeCallbackRequired ==
    (Finished(run, "migrate") /\ run.error \notin {PreflightError, TypeError, ScanError}) =>
        /\ (run.p.mode = "stream" /\ run.p.cb = "default") =>
            /\ run.pc = "rejected" /\ run.error = CbError
            /\ run.store.submitted = {}
        /\ (run.p.mode = "batch" /\ run.p.batchCb = "default") =>
            run.pc = "rejected" /\ run.error = BatchCbError

\* the requests the example batchCb hands to batchWrite for one page
BatchCbRequests(items) ==
    Range(MapWriteRequest(items)) \cup Range(MapWriteRequest(ItemsForB(items)))

\* C19: in a Batch Mode run batchWrite only ever runs on behalf of batchCb,
\* every request submitted to the store is one batchCb handed to batchWrite,
\* and the engine transforms no item and collects no dlq entry itself.
C19_EngineWritesNothingInBatchMode ==
    (run.entry = "migrate" /\ run.p.mode = "batch") =>
        /\ run.bw.caller \in {"", "batchCb_A", "batchCb_B"}
        /\ run.pc \in {"bw_while", "bw_sleep", "bw_write", "bw_backoff", "bw_after"} =>
             run.bw.caller \in {"batchCb_A", "batchCb_B"}
        /\ run.store.submitted \subseteq
             UNION {BatchCbRequests(run.batchCbArgs[k]) : k \in 1..Len(run.batchCbArgs)}
        /\ run.Items = <<>> /\ run.pending = {}
        /\ run.dlq = <<>>

\* a completed Batch Mode run of two pages whose batchCb wrote to the store
C19_Witness ==
    /\ Completed(run, "migrate") /\ run.p.mode = "batch"
    /\ Len(run.batchCbArgs) = 2
    /\ run.batchCbArgs[2] # <<>>
    /\ run.store.submitted # {}

\* the items of the k-th scanned page
PageItems(r, k) ==
    SubSeq(r.scanned, r.store.startKeys[k] + 1,
           IF k < Len(r.store.startKeys) THEN r.store.startKeys[k + 1] ELSE Len(r.scanned))

\* C20: whenever the dispatch of a page is over, a Stream Mode run has called
\* cb once on every item filterCb selected so far, in order, and never
\* batchCb; a Batch Mode run has called batchCb once per page scanned so far,
\* with the selected items of that page (also when there are none), and
\* never cb.
C20_ModeDispatchExclusive ==
    (run.entry = "migrate" /\ run.pc \in {"transform", "bw_while", "bw_sleep", "bw_write",
                                           "bw_backoff", "bw_after", "end_batch",
                                           "scan_sleep", "drained", "returned"}) =>
        /\ run.p.mode = "stream" =>
            /\ run.batchCbArgs = <<>>
            /\ run.cbArgs = Select(run.scanned, run.p.filterCb)
        /\ run.p.mode = "batch" =>
            /\ run.cbArgs = <<>>
            /\ Len(run.batchCbArgs) = run.store.scans
            /\ \A k \in 1..Len(run.batchCbArgs) :
                run.batchCbArgs[k] = Select(PageItems(run, k), run.p.filterCb)

\* a completed Batch Mode run whose second page had no item
C20_Witness ==
    /\ Completed(run, "migrate") /\ run.p.mode = "batch"
    /\ Len(run.batchCbArgs) = 2
    /\ run.batchCbArgs[2] = <<>>
    /\ run.batchCbArgs[1] # <<>>

\* C21: the dlq file is written at most once, never before the run has
\* drained its last page, and a completed run has written it exactly when
\* saveDlq is true and its dlq is not empty; the dlq is in the value migrate
\* returns either way.
C21_DlqFileAtRunEnd ==
    run.entry = "migrate" =>
        /\ run.dlqFiles <= 1
        /\ run.dlqFiles > 0 => run.pc = "returned"
        /\ Completed(run, "migrate") =>
            /\ (run.dlqFiles = 1) = (run.p.saveDlq /\ Len(run.dlq) > 0)
            /\ run.result.dlq = run.dlq

\* a run with saveDlq: false has returned a dlq of one entry
C21_Witness ==
    /\ Completed(run, "migrate") /\ ~run.p.saveDlq
    /\ Len(run.result.dlq) = 1
    /\ run.dlqFiles = 0

\* C22: once migrate has built counts, every name of customCounts is a key
\* of it, with value 0 as long as no callback has been called; only a step of
\* batchCb changes a custom counter; and the counts migrate returns are the
\* counts the callbacks updated: the example batchCb, adding 2 for each item
\* of a run with the default filter, ends with bItems = 2 * totalItems.
C22_CustomCounters ==
    [][/\ \A k \in run.p.customCounts :
            /\ k \in DOMAIN run'.counts
            /\ run'.callbacks = 0 => run'.counts[k] = 0
            /\ (k \in DOMAIN run.counts /\ run'.counts[k] # run.counts[k]) =>
                 (run.pc = "bw_while" /\ run.bw.caller = "batchCb_A")
       /\ run'.pc = "returned" /\ run.entry = "migrate" =>
            /\ run'.result.counts = run'.counts
            /\ \A k \in run.p.customCounts : run'.result.counts[k] = run.counts[k]
            /\ "bItems" \in run.p.customCounts =>
                 run'.result.counts["bItems"] = 2 * run'.result.counts["totalItems"]]_vars

\* a completed run of the example batchCb over two items
C22_Witness ==
    /\ Completed(run, "migrate") /\ run.p.customCounts = {"bItems"}
    /\ run.result.counts["bItems"] = 4

\* C23: a batch is submitted at most 8 times; the attempt number is 1 when
\* the batch is dequeued, goes up by exactly 1 with every retry, and every
\* submission of a call belongs to one of the batches it has dequeued.
C23_AtMostEightAttempts ==
    [][/\ run'.pc \in {"bw_write", "bw_backoff", "bw_after"} => run'.bw.retryCount \in 1..8
       /\ run.pc = "bw_sleep" => (run'.pc = "bw_write" /\ run'.bw.retryCount = 1)
       /\ run.pc = "bw_backoff" =>
            (run'.pc = "bw_write" /\ run'.bw.retryCount = run.bw.retryCount + 1)
       /\ run.pc = "bw_write" =>
            /\ run'.bw.seen.submissions = run.bw.seen.submissions + 1
            /\ run'.bw.retryCount = run.bw.retryCount
       /\ run'.bw.seen.submissions <= 8 * run'.bw.seen.firstAttempts]_vars

\* the eighth attempt of a batch is about to be submitted
C23_Witness ==
    run.pc = "bw_write" /\ run.bw.retryCount = 8 /\ run.bw.seen.submissions = 7

\* C24: an attempt that does not raise to asyncRetry (the store applied the
\* submission, or its error was caught) ends the attempts of the batch; an
\* attempt that raises is followed by another one while fewer than 8 were
\* made, and the 8th attempt that raises makes asyncRetry, and the call,
\* reject with the error that attempt raised.
C24_RetryStopsOrRejects ==
    [][run.pc = "bw_write" =>
        /\ run'.bw.seen.nUnprocessed = run.bw.seen.nUnprocessed => run'.pc = "bw_after"
        /\ (run'.bw.seen.nUnprocessed > run.bw.seen.nUnprocessed /\ run.bw.retryCount < 8) =>
             run'.pc = "bw_backoff"
        /\ (run'.bw.seen.nUnprocessed > run.bw.seen.nUnprocessed /\ run.bw.retryCount >= 8) =>
             (run'.pc = "rejected" /\ run'.error = UnprocessedError)]_vars

\* a direct call rejected after the 8th attempt of its second batch
C24_Witness ==
    /\ run.entry = "batchWrite" /\ run.pc = "rejected" /\ run.error = UnprocessedError
    /\ run.bw.retryCount = 8
    /\ run.bw.count = 1

\* C25: every submission holds at least 1 and at most 25 requests, first
\* attempts and retries alike.
C25_SubmissionSize ==
    run.pc \in {"bw_write", "bw_backoff"} =>
        (Len(run.bw.batchRequests) >= 1 /\ Len(run.bw.batchRequests) <= 25)

\* a retry of a narrowed batch of one request, and a retry of a whole batch
\* of 25, are both reachable; this is the second
C25_Witness ==
    run.pc = "bw_write" /\ run.bw.retryCount = 2 /\ Len(run.bw.batchRequests) = 25

\* C26: a retry submits exactly the requests the store handed back in the
\* attempt before it, each once, and none of them is a request the store has
\* applied.
C26_RetryNarrowsToUnprocessed ==
    (run.pc = "bw_backoff" \/ (run.pc = "bw_write" /\ run.bw.retryCount > 1)) =>
        /\ run.bw.batchRequests = run.bw.seen.lastUnprocessed
        /\ Cardinality(Range(run.bw.batchRequests)) = Len(run.bw.batchRequests)
        /\ Range(run.bw.batchRequests) \cap run.store.accepted = {}
        /\ Range(run.bw.dequeued) \subseteq Range(run.bw.batchRequests) \cup run.store.accepted

\* the third attempt of a batch of 25 is down to one request
C26_Witness ==
    /\ run.pc = "bw_write" /\ run.bw.retryCount = 3
    /\ Len(run.bw.dequeued) = 25
    /\ Len(run.bw.batchRequests) = 1

\* C27: when an attempt after the first ends a batch with a store error, the
\* DLQ entry pushed for it holds the requests of that attempt, which are the
\* requests the store handed back last, not the batch as dequeued; as long as
\* the store applies nothing of a submission that throws, none of them was
\* applied.
C27_DlqHoldsNarrowedBatch ==
    [][(run.pc = "bw_after" /\ run.bw.dynamoError # NoError /\ run.bw.retryCount > 1) =>
        /\ Len(run'.bw.dlq) = Len(run.bw.dlq) + 1
        /\ run'.bw.dlq[Len(run'.bw.dlq)].Requests = run.bw.seen.lastUnprocessed
        /\ run'.bw.dlq[Len(run'.bw.dlq)].Requests
             = run.bw.seen.errored[Len(run.bw.seen.errored)].Requests
        /\ run.store.atomic =>
             Range(run'.bw.dlq[Len(run'.bw.dlq)].Requests) \cap run.store.accepted = {}
        /\ Range(run.bw.dequeued) \ Range(run'.bw.dlq[Len(run'.bw.dlq)].Requests)
             \subseteq run.store.accepted]_vars

\* a batch of 25, narrowed to 2 requests, was dead-lettered after a retry
C27_Witness ==
    /\ run.pc = "bw_while" /\ Len(run.bw.dlq) = 1
    /\ Len(run.bw.dequeued) = 25
    /\ Len(run.bw.dlq[1].Requests) = 2
    /\ run.bw.dynamoError # NoError

\* the batchWrite calls of the engine so far
EngineWrites(r) == SelectSeq(r.bwArgs, LAMBDA a : a.caller = "stream")

Transformed(items) == [i \in 1..Len(items) |-> cb(items[i])]

\* C28: in Stream Mode the engine has called batchWrite once for every page
\* whose transforms have all resolved and for no other, with the run's
\* TableName and the transformed selected items of the page; while a
\* transform is pending no batchWrite call is under way.
C28_OneWritePerPage ==
    (run.entry = "migrate" /\ run.p.mode = "stream") =>
        /\ run.bwArgs = EngineWrites(run)
        /\ run.pc \in {"bw_while", "bw_sleep", "bw_write", "bw_backoff", "bw_after",
                       "end_batch", "scan_sleep", "drained", "returned"} =>
             Len(run.bwArgs) = run.store.scans
        /\ run.pc \in {"scan", "filter", "dispatch", "transform"} =>
             Len(run.bwArgs) = run.store.scans - 1
        /\ run.pc = "transform" => run.bw = NoCall
        /\ \A k \in 1..Len(run.bwArgs) :
            /\ run.bwArgs[k].tableName = run.p.TableName
            /\ run.bwArgs[k].items = Transformed(Select(PageItems(run, k), run.p.filterCb))

\* the write of the second page is under way
C28_Witness ==
    /\ run.entry = "migrate" /\ run.p.mode = "stream"
    /\ run.pc = "bw_write"
    /\ Len(run.bwArgs) = 2
    /\ Len(run.bwArgs[2].items) = 1

\* C29: while a scan is in flight nothing else of the run is: every scan
\* before it was answered, every page before it has completed (counts.batch),
\* no batchWrite call is under way and no transform is pending.
C29_PagesOneAfterAnother ==
    (run.entry = "migrate" /\ run.pc \in {"scan_sleep", "scan"}) =>
        /\ Len(run.store.lastKeys) = run.counts["batch"]
        /\ Len(run.store.startKeys) = run.counts["batch"] + (IF run.pc = "scan" THEN 1 ELSE 0)
        /\ run.bw = NoCall
        /\ run.pending = {}

\* the scan of the second page of a Batch Mode run is in flight
C29_Witness ==
    /\ run.entry = "migrate" /\ run.p.mode = "batch"
    /\ run.pc = "scan"
    /\ run.counts["batch"] = 1
    /\ Len(run.bwArgs) = 2

\* C30: the batches of a call are submitted one after another: a batch gets
\* its first submission only when every batch dequeued before it has ended
\* its attempts (count), and it ends them before the next one is dequeued.
C30_OneBatchAtATime ==
    /\ (run.pc \in {"bw_while", "bw_sleep"} \/ (run.pc = "bw_write" /\ run.bw.retryCount = 1)) =>
         run.bw.seen.firstAttempts = run.bw.count
    /\ (run.pc \in {"bw_backoff", "bw_after"} \/ (run.pc = "bw_write" /\ run.bw.retryCount > 1)) =>
         run.bw.seen.firstAttempts = run.bw.count + 1

\* the second batch of a call is being retried
C30_Witness ==
    /\ run.pc = "bw_backoff" /\ run.bw.count = 1
    /\ run.bw.seen.firstAttempts = 2

\* the pcs of a batchWrite call that has dequeued a batch and not ended it
InBatch(r) == r.pc \in {"bw_write", "bw_backoff", "bw_after"}

\* C31: one scanDelay sleep has started before every scan, the first
\* included, and none beside them; one writeDelay sleep has started for every
\* batch a batchWrite call has dequeued, before its first attempt, and none
\* beside them; a retry of a batch follows one retry backoff and no
\* writeDelay sleep.
C31_OneSleepPerScanAndBatch ==
    /\ run.entry = "migrate" =>
         run.scanSleeps = run.store.scans + (IF run.pc = "scan_sleep" THEN 1 ELSE 0)
    /\ (run.pc \in {"bw_while", "bw_sleep"} \/ InBatch(run)) =>
        /\ run.bw.seen.writeSleeps = run.bw.count + (IF run.pc = "bw_while" THEN 0 ELSE 1)
        /\ run.pc # "bw_sleep" =>
             run.bw.seen.writeSleeps
                = run.bw.seen.firstAttempts
                    + (IF run.pc = "bw_write" /\ run.bw.retryCount = 1 THEN 1 ELSE 0)
        /\ run.bw.seen.backoffs
             = run.bw.seen.submissions - run.bw.seen.firstAttempts
                 + (IF run.pc = "bw_backoff" \/ (run.pc = "bw_write" /\ run.bw.retryCount > 1)
                    THEN 1 ELSE 0)

\* the batch of the write of the second page of a run is about to be
\* submitted for the third time
C31_Witness ==
    /\ run.pc = "bw_write" /\ run.bw.retryCount = 3
    /\ run.bw.seen.writeSleeps = 1 /\ run.bw.seen.backoffs = 2
    /\ run.scanSleeps = 2

\* the sequences of a sequence of sequences, one after another
RECURSIVE Concat(_)
Concat(seqs) == IF seqs = <<>> THEN <<>> ELSE Head(seqs) \o Concat(Tail(seqs))

\* C32: in Stream Mode the dlq of the run is always the DLQ lists the
\* batchWrite calls of its pages have returned so far, one after another in
\* page order; every entry names the run's TableName; and a completed run
\* returns exactly that dlq.
C32_DlqIsPagesInOrder ==
    (run.entry = "migrate" /\ run.p.mode = "stream") =>
        /\ run.dlq = Concat(run.bwResults)
        /\ Len(run.bwResults) = run.counts["batch"] + (IF run.pc = "end_batch" THEN 1 ELSE 0)
        /\ \A i \in 1..Len(run.dlq) : run.dlq[i].TableName = run.p.TableName
        /\ Completed(run, "migrate") => run.result.dlq = Concat(run.bwResults)

\* a completed Stream Mode run of two pages, each of which left a DLQ entry
C32_Witness ==
    /\ Completed(run, "migrate") /\ run.p.mode = "stream"
    /\ Len(run.bwResults) = 2
    /\ Len(run.bwResults[1]) = 1 /\ Len(run.bwResults[2]) = 1
    /\ Len(run.result.dlq) = 2

\* C33: a transform that has resolved has left its item at the position of
\* the selected item it was called on; the items handed to batchWrite for a
\* page are the transformed selected items in source order; and the batch
\* batchWrite has dequeued k-th is, in order, requests 25(k-1)+1 to
\* min(25k, n) of the n items of the call, one PutRequest each, which is what
\* its first attempt submits.
C33_OrderPreserved ==
    /\ run.pc = "transform" =>
        \A i \in 1..Len(run.filtered) :
            (~isPending(run, i) /\ ~isRejecting(run, i)) => run.Items[i] = cb(run.filtered[i])
    /\ (run.bw.caller = "stream" /\ run.bwArgs # <<>>) =>
        LET items == run.bwArgs[Len(run.bwArgs)].items
            selected == Select(PageItems(run, Len(run.bwArgs)), run.p.filterCb)
        IN  /\ Len(items) = Len(selected)
            /\ \A i \in 1..Len(items) : items[i] = cb(selected[i])
    /\ InBatch(run) =>
        LET items == run.bwArgs[Len(run.bwArgs)].items
            k == run.bw.count + 1
        IN  /\ Len(run.bw.dequeued) = Min(25 * k, Len(items)) - 25 * (k - 1)
            /\ \A i \in 1..Len(run.bw.dequeued) :
                run.bw.dequeued[i] = WriteRequest(items[25 * (k - 1) + i])
            /\ (run.pc = "bw_write" /\ run.bw.retryCount = 1) =>
                 run.bw.batchRequests = run.bw.dequeued

\* the second batch of a call over 26 items is about to be submitted
C33_Witness ==
    /\ run.pc = "bw_write" /\ run.bw.retryCount = 1 /\ run.bw.count = 1
    /\ Len(run.items) = 26
    /\ run.bw.batchRequests = <<WriteRequest(TableItem(26))>>

\* C34: no step of a run decreases counts.batch, counts.totalItems or
\* counts.migratedItems, and after every step
\* 0 <= migratedItems <= totalItems <= 25 * (batch + 1).
C34_CountersMonotone ==
    [][(run.entry = "migrate" /\ run.pc # "call") =>
        /\ run'.counts["batch"] >= run.counts["batch"]
        /\ run'.counts["totalItems"] >= run.counts["totalItems"]
        /\ run'.counts["migratedItems"] >= run.counts["migratedItems"]
        /\ 0 <= run'.counts["migratedItems"]
        /\ run'.counts["migratedItems"] <= run'.counts["totalItems"]
        /\ run'.counts["totalItems"] <= 25 * (run'.counts["batch"] + 1)]_vars

\* a completed run of three pages, the last one empty, that selected one of
\* its two items
C34_Witness ==
    /\ Completed(run, "migrate")
    /\ run.counts["batch"] = 3
    /\ run.counts["totalItems"] = 2
    /\ run.counts["migratedItems"] = 1

\* the number of items the first k scans returned
ItemsThrough(r, k) ==
    IF k < Len(r.store.startKeys) THEN r.store.startKeys[k + 1] ELSE Len(r.scanned)

\* C35: a callback called on page p (counted from 0) sees counts.batch = p
\* and counts.totalItems already holding the items of page p; filterCb sees
\* counts.migratedItems without the selected items of page p, cb and batchCb
\* see it with them; counts.batch goes up for page p only when its write, or
\* its batchCb, is over.
C35_CounterOrderInPage ==
    run.entry = "migrate" =>
        /\ \A s \in run.observed :
            /\ s.batch = s.page
            /\ s.totalItems = ItemsThrough(run, s.page + 1)
            /\ s.migratedItems
                 = Len(Select(SubSeq(run.scanned, 1,
                                     ItemsThrough(run, IF s.by = "filterCb"
                                                       THEN s.page ELSE s.page + 1)),
                              run.p.filterCb))
        /\ (run.pc \in {"scan", "filter", "dispatch", "transform", "bw_while", "bw_sleep",
                        "end_batch"} \/ InBatch(run)) =>
             run.counts["batch"] = run.store.scans - 1
        /\ run.pc \in {"scan_sleep", "drained", "returned"} =>
             run.counts["batch"] = run.store.scans

\* filterCb and cb were both called on the second page of a run, after the
\* first page had selected an item
C35_Witness ==
    /\ Completed(run, "migrate")
    /\ [by |-> "filterCb", page |-> 1, batch |-> 1, totalItems |-> 2, migratedItems |-> 1]
         \in run.observed
    /\ [by |-> "cb", page |-> 1, batch |-> 1, totalItems |-> 2, migratedItems |-> 2]
         \in run.observed

C38_AbortLosesDlq ==
    (run.entry = "migrate" /\ run.pc = "rejected") =>
        /\ run.dlqFiles = 0
        /\ run.result = [counts |-> InitCounts({}), dlq |-> <<>>]

\* a run with saveDlq whose first page left a DLQ entry rejected on the scan
\* of its second page
C38_Witness ==
    /\ run.entry = "migrate" /\ run.pc = "rejected" /\ run.p.saveDlq
    /\ Len(run.dlq) = 1
    /\ run.store.scans = 2

\* C39 as claimed: at completion of a Stream Mode run counts.migratedItems is
\* the number of requests the store applied plus the number of requests in
\* the entries of the returned dlq.
C39_MigratedIsWrittenPlusDlq ==
    (Completed(run, "migrate") /\ run.p.mode = "stream") =>
        run.result.counts["migratedItems"]
            = Cardinality(run.store.accepted) + Cardinality(DlqRequests(run.result.dlq))

\* C39 as amended: counts.migratedItems counts the selected items: while the
\* write of a page runs it already holds the items selected so far, and it is
\* never taken back. At completion of a Stream Mode run every selected item
\* is applied by the store or in an entry of the returned dlq; the two numbers
\* add up to migratedItems as long as the store applies nothing of a
\* submission that throws.
C39_MigratedIsSelected ==
    (run.entry = "migrate" /\ run.p.mode = "stream") =>
        /\ (run.pc \in {"dispatch", "transform", "bw_while", "bw_sleep", "end_batch",
                        "scan_sleep", "drained", "returned"} \/ InBatch(run)) =>
             run.counts["migratedItems"] = Len(Select(run.scanned, run.p.filterCb))
        /\ Completed(run, "migrate") =>
            /\ run.result.counts["migratedItems"]
                 = Cardinality(run.store.accepted \cup DlqRequests(run.result.dlq))
            /\ run.store.atomic =>
                 run.result.counts["migratedItems"]
                    = Cardinality(run.store.accepted)
                        + Cardinality(DlqRequests(run.result.dlq))

\* a completed Stream Mode run against such a store, one item applied and
\* one dead-lettered
C39_Witness ==
    /\ Completed(run, "migrate") /\ run.p.mode = "stream" /\ run.store.atomic
    /\ run.result.counts["migratedItems"] = 2
    /\ Cardinality(run.store.accepted) = 1
    /\ Cardinality(DlqRequests(run.result.dlq)) = 1

\* C40: a run that got past the pre-flight guard has issued a scan by the
\* time it is over; a completed run has counts.batch >= 1, also on an empty
\* table; and a completed Batch Mode run has called batchCb at least once.
C40_AtLeastOneScan ==
    /\ (Finished(run, "migrate") /\ run.error \notin {PreflightError, TypeError}) =>
         run.store.scans >= 1
    /\ run.pc \in {"end_batch", "drained"} => run.store.scans >= 1
    /\ Completed(run, "migrate") =>
        /\ run.result.counts["batch"] >= 1
        /\ run.p.mode = "batch" => Len(run.batchCbArgs) >= 1

\* a completed Batch Mode run on an empty table: one scan, one call of
\* batchCb, with no items
C40_Witness ==
    /\ Completed(run, "migrate") /\ run.p.mode = "batch"
    /\ run.store.size = 0
    /\ run.store.scans = 1
    /\ run.result.counts["batch"] = 1
    /\ run.batchCbArgs = << <<>> >>
====
